---- MODULE Spec2Model ----
(***************************************************************************)
(* Tag classifier: the HTTP service layer (server.py) in front of the      *)
(* classification engine (classify_tags.py).                               *)
(*                                                                         *)
(* The zero-shot pipeline of the transformers library is an external       *)
(* collaborator.  It is modelled by the set of outcomes one call can have: *)
(* it raises, or it returns the candidate labels it was handed ranked by   *)
(* non-increasing score, the score being a function of the label text.     *)
(* Scores are abstract ranks (integers), not floats.                       *)
(***************************************************************************)
EXTENDS Integers, Sequences, FiniteSets, TLC

VARIABLES classifier, lifecycle, request, response, invocations, reference

vars == <<classifier, lifecycle, request, response, invocations, reference>>

(* ------------------------------ bounds --------------------------------- *)

\* longest tag list a request carries
MaxTags == 2
\* longest category list a request carries
MaxCats == 3
Tags == {"dog", "park"}
Categories == {"animals", "food"}
\* the scores the pipeline hands out, as ranks: the requests name at most two
\* distinct labels, so two values give every order (below, equal, above)
Scores == {1, 2}
\* messages of the exceptions the pipeline call may raise
FailureMessages == {"CUDA out of memory"}
\* values datetime.now().isoformat() may take
Timestamps == {"2024-01-01T00:00:00"}
Devices == {"cuda", "cpu"}

(* ----------------------------- helpers --------------------------------- *)

Range(s) == {s[i] : i \in DOMAIN s}

SeqsUpTo(S, n) == UNION {[1..k -> S] : k \in 0..n}

Perms(n) == {p \in [1..n -> 1..n] : \A i, j \in 1..n : p[i] = p[j] => i = j}

\* Python's None
None == [none |-> TRUE]

MODEL_NAME == "MoritzLaurer/deberta-v3-base-zeroshot-v2.0"

API_VERSION == "1.0.0"

(* ------------------------- requests on the wire ------------------------ *)

NoRequest == [endpoint |-> "none"]

NoResponse == [status_code |-> 0]

\* pydantic model ClassificationRequest, as the body of POST /classify
ClassificationRequest ==
    [endpoint : {"/classify"},
     tags : SeqsUpTo(Tags, MaxTags),
     categories : SeqsUpTo(Categories, MaxCats),
     multi_label : BOOLEAN,
     return_scores : BOOLEAN]

HealthRequest == [endpoint |-> "/"]

InfoRequest == [endpoint |-> "/info"]

Requests == ClassificationRequest \cup {HealthRequest, InfoRequest}

\* a request was received and its handler has not run yet
Pending == request # NoRequest /\ response = NoResponse

(* --------------------- the zero-shot pipeline -------------------------- *)

NonIncreasing(s) == \A i \in 1..(Len(s) - 1) : s[i] >= s[i + 1]

\* what one call self.classifier(text, candidate_labels=..., multi_label=...)
\* may return: the premise, and the candidate labels in rank order with their
\* scores
Rankings(text, candidate_labels) ==
    LET n == Len(candidate_labels)
        labelsOf(p) == [i \in 1..n |-> candidate_labels[p[i]]]
        scoresOf(f, p) == [i \in 1..n |-> f[candidate_labels[p[i]]]]
    IN  {[raised |-> FALSE, sequence |-> text, labels |-> labelsOf(fp[2]),
          scores |-> scoresOf(fp[1], fp[2])] :
            fp \in {x \in [Range(candidate_labels) -> Scores] \X Perms(n) :
                        NonIncreasing(scoresOf(x[1], x[2]))}}

\* every outcome of one pipeline call: a ranking, or an exception
PipelineOutcomes(text, candidate_labels, multi_label) ==
    Rankings(text, candidate_labels) \cup {[raised |-> TRUE, msg |-> m] : m \in FailureMessages}

(* ------------------- classify_tags.py: TagClassifier ------------------- *)

RECURSIVE Join(_, _)
\* str.join
Join(sep, strs) ==
    IF strs = <<>> THEN ""
    ELSE IF Len(strs) = 1 THEN strs[1]
    ELSE strs[1] \o sep \o Join(sep, Tail(strs))

RECURSIVE Dedup(_)
\* the elements of a list in order of first occurrence
Dedup(strs) ==
    IF strs = <<>> THEN <<>>
    ELSE LET front == Dedup(SubSeq(strs, 1, Len(strs) - 1))
         IN  IF \E i \in 1..Len(front) : front[i] = strs[Len(strs)]
             THEN front ELSE Append(front, strs[Len(strs)])

\* TagsText that drops repeated tags first: ", ".join(dict.fromkeys(tags))
TagsTextDedup(tags) == Join(", ", Dedup(tags))

\* text = ", ".join(tags)
TagsText(tags) == Join(", ", tags)

\* d[k] = v on an insertion-ordered dict, kept as a sequence of <<key, value>>
DictSet(d, k, v) ==
    IF \E i \in 1..Len(d) : d[i][1] = k
    THEN [i \in 1..Len(d) |-> IF d[i][1] = k THEN <<k, v>> ELSE d[i]]
    ELSE Append(d, <<k, v>>)

RECURSIVE ZipDictFrom(_, _, _, _)
ZipDictFrom(d, labels, scores, i) ==
    IF i > Len(labels) \/ i > Len(scores) THEN d
    ELSE ZipDictFrom(DictSet(d, labels[i], scores[i]), labels, scores, i + 1)

\* ZipDict with the pairs taken in ascending order: reversed(zip(...))
ZipDictAscending(labels, scores) ==
    LET n == IF Len(labels) < Len(scores) THEN Len(labels) ELSE Len(scores)
    IN  [items |-> ZipDictFrom(<<>>, [i \in 1..n |-> labels[n + 1 - i]],
                               [i \in 1..n |-> scores[n + 1 - i]], 1)]

\* ZipDict that skips the winner: zip(labels[1:], scores[1:])
ZipDictSkipFirst(labels, scores) == [items |-> ZipDictFrom(<<>>, labels, scores, 2)]

\* {label: score for label, score in zip(labels, scores)}
ZipDict(labels, scores) == [items |-> ZipDictFrom(<<>>, labels, scores, 1)]

\* FormatOutput that takes the category from the result's "sequence" key
FormatOutputSequence(result, return_scores) ==
    LET output == [category |-> result.sequence, score |-> result.scores[1]]
    IN  IF return_scores
        THEN [category |-> output.category, score |-> output.score,
              all_scores |-> ZipDict(result.labels, result.scores)]
        ELSE output

\* FormatOutput that ignores return_scores and always adds all_scores
FormatOutputAlways(result, return_scores) ==
    [category |-> result.labels[1], score |-> result.scores[1],
     all_scores |-> ZipDict(result.labels, result.scores)]

\* the output dict assembled from the pipeline's result
FormatOutput(result, return_scores) ==
    LET output == [category |-> result.labels[1], score |-> result.scores[1]]
    IN  IF return_scores
        THEN [category |-> output.category, score |-> output.score,
              all_scores |-> ZipDict(result.labels, result.scores)]
        ELSE output

\* classify_tags that calls the pipeline a second time after a failure
TagClassifier_classify_tags_retry(tags, categories, multi_label, return_scores, outcome) ==
    LET text == TagsText(tags)
        call == [text |-> text, candidate_labels |-> categories,
                 multi_label |-> multi_label, outcome |-> outcome]
    IN  IF outcome.raised
        THEN [raised |-> TRUE, msg |-> outcome.msg, calls |-> <<call, call>>]
        ELSE IF Len(outcome.labels) = 0
        THEN [raised |-> TRUE, msg |-> "list index out of range", calls |-> <<call>>]
        ELSE [raised |-> FALSE, output |-> FormatOutput(outcome, return_scores),
              calls |-> <<call>>]

\* TagClassifier.classify_tags, given the outcome of its pipeline call:
\* what it returns or raises, and the pipeline calls it made
TagClassifier_classify_tags(tags, categories, multi_label, return_scores, outcome) ==
    LET text == TagsText(tags)
        call == [text |-> text, candidate_labels |-> categories,
                 multi_label |-> multi_label, outcome |-> outcome]
    IN  IF outcome.raised
        THEN [raised |-> TRUE, msg |-> outcome.msg, calls |-> <<call>>]
        ELSE IF Len(outcome.labels) = 0
        THEN [raised |-> TRUE, msg |-> "list index out of range", calls |-> <<call>>]
        ELSE [raised |-> FALSE, output |-> FormatOutput(outcome, return_scores),
              calls |-> <<call>>]

\* TagClassifier.classify_single_tag: classify_tags on the one-tag list, with
\* multi_label left at its default
TagClassifier_classify_single_tag(tag, categories, return_scores, outcome) ==
    TagClassifier_classify_tags(<<tag>>, categories, FALSE, return_scores, outcome)

\* TagClassifier.__init__: the handle that a successful load yields
TagClassifier(model_name, device) == [model_name |-> model_name, device |-> device]

(* ---------------------------- server.py -------------------------------- *)

HTTPException(status_code, detail) ==
    [status_code |-> status_code, body |-> [detail |-> detail]]

\* ClassificationResponse(**result): all_scores defaults to None
ClassificationResponse(result) ==
    [category |-> result.category,
     score |-> result.score,
     all_scores |-> IF "all_scores" \in DOMAIN result THEN result.all_scores ELSE None]

\* HealthStatus that does not look at the handle
HealthStatusAlways(cls) == "healthy"

HealthStatus(cls) == IF cls # None THEN "healthy" ELSE "unhealthy"

HealthResponse(cls, now) ==
    [status |-> HealthStatus(cls), model |-> MODEL_NAME, timestamp |-> now,
     version |-> API_VERSION]

InfoBody ==
    [name |-> "Tag Classifier API", version |-> API_VERSION, model |-> MODEL_NAME,
     endpoints |-> {"/", "/classify", "/info", "/docs", "/redoc"}]

\* ValidationError with the tags check ahead of the handle check
ValidationErrorTagsFirst(cls, req) ==
    IF req.tags = <<>>
    THEN HTTPException(400, "Mindestens ein Tag muss angegeben werden")
    ELSE IF cls = None
    THEN HTTPException(503, "Service nicht verfügbar - Modell nicht geladen")
    ELSE IF Len(req.categories) < 2
    THEN HTTPException(400, "Mindestens zwei Kategorien müssen angegeben werden")
    ELSE None

\* the checks at the head of the /classify handler: the HTTPException the
\* first failing one raises, None when all pass
ValidationError(cls, req) ==
    IF cls = None
    THEN HTTPException(503, "Service nicht verfügbar - Modell nicht geladen")
    ELSE IF req.tags = <<>>
    THEN HTTPException(400, "Mindestens ein Tag muss angegeben werden")
    ELSE IF Len(req.categories) < 2
    THEN HTTPException(400, "Mindestens zwei Kategorien müssen angegeben werden")
    ELSE None

\* InternalError that drops the exception's message
InternalErrorGeneric(msg) == HTTPException(500, "Internal Server Error")

\* except Exception as e: the exception is answered with 500 and str(e)
InternalError(msg) ==
    HTTPException(500, "Interner Fehler bei der Klassifizierung: " \o msg)

\* HandleClassify that runs the classification before it validates
HandleClassifyEager(cls, req, outcome) ==
    LET result == TagClassifier_classify_tags(req.tags, req.categories,
                        req.multi_label, req.return_scores, outcome)
    IN  IF ValidationError(cls, req) # None
        THEN [response |-> ValidationError(cls, req), calls |-> result.calls]
        ELSE IF result.raised
        THEN [response |-> InternalError(result.msg), calls |-> result.calls]
        ELSE [response |-> [status_code |-> 200,
                            body |-> ClassificationResponse(result.output)],
              calls |-> result.calls]

\* the body of the /classify handler: the response and the pipeline calls made
HandleClassify(cls, req, outcome) ==
    IF ValidationError(cls, req) # None
    THEN [response |-> ValidationError(cls, req), calls |-> <<>>]
    ELSE LET result == TagClassifier_classify_tags(req.tags, req.categories,
                            req.multi_label, req.return_scores, outcome)
         IN  IF result.raised
             THEN [response |-> InternalError(result.msg), calls |-> result.calls]
             ELSE [response |-> [status_code |-> 200,
                                 body |-> ClassificationResponse(result.output)],
                   calls |-> result.calls]

(* ------------------------------ actions -------------------------------- *)

Init ==
    /\ classifier = None
    /\ lifecycle = "STARTING"
    /\ request = NoRequest
    /\ response = NoResponse
    /\ invocations = <<>>
    /\ reference = None

\* startup_event: the model loads and the handle is stored
startup_loaded ==
    /\ lifecycle = "STARTING"
    /\ \E device \in Devices : classifier' = TagClassifier(MODEL_NAME, device)
    /\ lifecycle' = "READY"
    /\ UNCHANGED <<request, response, invocations, reference>>

\* startup_event: the load raises and the exception is re-raised
startup_failed ==
    /\ lifecycle = "STARTING"
    /\ lifecycle' = "FAILED"
    /\ UNCHANGED <<classifier, request, response, invocations, reference>>

\* a client sends a request
Receive(req) ==
    /\ ~Pending
    /\ request' = req
    /\ response' = NoResponse
    /\ invocations' = <<>>
    /\ UNCHANGED <<classifier, lifecycle, reference>>

\* health_check that loads the model itself when the handle is absent
health_check_lazy_load ==
    /\ Pending
    /\ request.endpoint = "/"
    /\ classifier' = IF classifier = None THEN TagClassifier(MODEL_NAME, "cpu")
                                         ELSE classifier
    /\ \E now \in Timestamps :
          response' = [status_code |-> 200, body |-> HealthResponse(classifier', now)]
    /\ UNCHANGED <<lifecycle, request, invocations, reference>>

\* GET /
health_check ==
    /\ Pending
    /\ request.endpoint = "/"
    /\ \E now \in Timestamps :
          response' = [status_code |-> 200, body |-> HealthResponse(classifier, now)]
    /\ UNCHANGED <<classifier, lifecycle, request, invocations, reference>>

\* POST /classify
classify_tags ==
    /\ Pending
    /\ request.endpoint = "/classify"
    /\ \E outcome \in PipelineOutcomes(TagsText(request.tags), request.categories,
                                       request.multi_label) :
          LET handled == HandleClassify(classifier, request, outcome)
          IN  /\ response' = handled.response
              /\ invocations' = handled.calls
    /\ UNCHANGED <<classifier, lifecycle, request, reference>>

\* GET /info
get_info ==
    /\ Pending
    /\ request.endpoint = "/info"
    /\ response' = [status_code |-> 200, body |-> InfoBody]
    /\ UNCHANGED <<classifier, lifecycle, request, invocations, reference>>

Next ==
    \/ startup_loaded
    \/ startup_failed
    \/ \E req \in Requests : Receive(req)
    \/ health_check
    \/ classify_tags
    \/ get_info

Spec == Init /\ [][Next]_vars

(* ------------------ the service over a static model -------------------- *)

\* `reference` remembers one earlier /classify call that reached the
\* pipeline: its request, the pipeline call with its outcome, the response,
\* and whether a call with other arguments has been handled since.

\* the /classify requests sent to the service over a static model
StaticRequests ==
    [endpoint : {"/classify"},
     tags : {<<"dog">>, <<"dog", "park">>},
     categories : {<<"animals", "food">>, <<"food", "animals">>},
     multi_label : BOOLEAN,
     return_scores : BOOLEAN]

\* one pipeline call of a static, deterministic model: a call with the
\* arguments of the reference call has the outcome the reference call had
StaticOutcomes(text, candidate_labels, multi_label) ==
    IF /\ reference # None
       /\ reference.call.text = text
       /\ reference.call.candidate_labels = candidate_labels
       /\ reference.call.multi_label = multi_label
    THEN {reference.call.outcome}
    ELSE PipelineOutcomes(text, candidate_labels, multi_label)

\* the reference after a /classify call was handled
NextReference(req, handled, keep) ==
    IF reference # None
    THEN [reference EXCEPT !.interleaved = @ \/ req # reference.request]
    ELSE IF keep /\ handled.calls # <<>>
    THEN [request |-> req, call |-> handled.calls[1], response |-> handled.response,
          interleaved |-> FALSE]
    ELSE None

\* POST /classify where the engine reuses the candidate labels of the call
\* before (kept on the handle) instead of the request's
classify_tags_static_stale ==
    /\ Pending
    /\ request.endpoint = "/classify"
    /\ LET stale == [request EXCEPT !.categories =
                        IF "last_categories" \in DOMAIN classifier
                        THEN classifier.last_categories ELSE @]
       IN  \E outcome \in StaticOutcomes(TagsText(stale.tags), stale.categories,
                                         stale.multi_label), keep \in BOOLEAN :
              LET handled == HandleClassify(classifier, stale, outcome)
              IN  /\ response' = handled.response
                  /\ invocations' = handled.calls
                  /\ reference' = NextReference(request, handled, keep)
    /\ classifier' = IF classifier = None THEN None
                     ELSE [model_name |-> classifier.model_name,
                           device |-> classifier.device,
                           last_categories |-> request.categories]
    /\ UNCHANGED <<lifecycle, request>>

\* POST /classify, the pipeline being a static model
classify_tags_static ==
    /\ Pending
    /\ request.endpoint = "/classify"
    /\ \E outcome \in StaticOutcomes(TagsText(request.tags), request.categories,
                                     request.multi_label), keep \in BOOLEAN :
          LET handled == HandleClassify(classifier, request, outcome)
          IN  /\ response' = handled.response
              /\ invocations' = handled.calls
              /\ reference' = NextReference(request, handled, keep)
    /\ UNCHANGED <<classifier, lifecycle, request>>

NextStatic ==
    \/ startup_loaded
    \/ startup_failed
    \/ \E req \in StaticRequests : Receive(req)
    \/ classify_tags_static

SpecStatic == Init /\ [][NextStatic]_vars

(* ------------------- the engine called as a library -------------------- *)

\* the calls classifier.classify_single_tag(tag, categories, return_scores)
SingleTagCalls ==
    [endpoint : {"classify_single_tag"},
     tag : Tags,
     categories : SeqsUpTo(Categories, MaxCats),
     return_scores : BOOLEAN]

\* a caller in the process invokes classify_single_tag on the loaded engine
call_single_tag(call) ==
    /\ classifier # None
    /\ Receive(call)

\* the body of classify_single_tag runs: it returns the output dict or lets
\* the exception through
classify_single_tag ==
    /\ Pending
    /\ request.endpoint = "classify_single_tag"
    /\ \E outcome \in PipelineOutcomes(TagsText(<<request.tag>>), request.categories,
                                       FALSE) :
          LET result == TagClassifier_classify_single_tag(request.tag,
                            request.categories, request.return_scores, outcome)
          IN  /\ response' = IF result.raised
                             THEN [raised |-> TRUE, msg |-> result.msg]
                             ELSE [raised |-> FALSE, value |-> result.output]
              /\ invocations' = result.calls
    /\ UNCHANGED <<classifier, lifecycle, request, reference>>

NextLibrary ==
    \/ Next
    \/ \E call \in SingleTagCalls : call_single_tag(call)
    \/ classify_single_tag

SpecLibrary == Init /\ [][NextLibrary]_vars

(* ------------------------- properties checked -------------------------- *)

\* the /classify handler runs in this step
ClassifyStep ==
    Pending /\ request.endpoint = "/classify" /\ response' # NoResponse

\* the health handler runs in this step
HealthStep ==
    Pending /\ request.endpoint = "/" /\ response' # NoResponse

\* the last request was a /classify request and it has been answered
Answered == request.endpoint = "/classify" /\ response # NoResponse

Answered200 == Answered /\ response.status_code = 200

HasAllScores == Answered200 /\ response.body.all_scores # None

Items == response.body.all_scores.items

Keys == {Items[i][1] : i \in 1..Len(Items)}

\* C1: the /classify handler checks in a fixed order and the first violation
\* alone decides the response: 503 when there is no model handle, whatever
\* the body; else 400 "at least one tag" when tags is empty, whatever the
\* categories; else 400 "at least two categories" when categories has fewer
\* than 2 entries; the engine is called exactly for the requests that pass
\* all three.
C1_ValidationOrder ==
    [][ClassifyStep =>
        /\ classifier = None =>
              response' = HTTPException(503,
                              "Service nicht verfügbar - Modell nicht geladen")
        /\ (classifier # None /\ request.tags = <<>>) =>
              response' = HTTPException(400,
                              "Mindestens ein Tag muss angegeben werden")
        /\ (classifier # None /\ request.tags # <<>> /\ Len(request.categories) < 2) =>
              response' = HTTPException(400,
                              "Mindestens zwei Kategorien müssen angegeben werden")
        /\ invocations' # <<>> <=>
              (classifier # None /\ request.tags # <<>> /\ Len(request.categories) >= 2)
       ]_vars

\* C1 witness: a request with empty tags and fewer than 2 categories was
\* answered 503 because the model handle was absent.
C1_Witness ==
    /\ Answered
    /\ request.tags = <<>>
    /\ Len(request.categories) < 2
    /\ response.status_code = 503
    /\ classifier = None

\* C2: a /classify request answered with 503 or 400 has caused no call of
\* the model.
C2_NoInferenceBeforeValidation ==
    (Answered /\ response.status_code \in {503, 400}) => invocations = <<>>

\* C2 witness: a request with one category only was answered 400 by a
\* service whose model is loaded.
C2_Witness ==
    /\ Answered
    /\ response.status_code = 400
    /\ request.tags # <<>>
    /\ classifier # None
    /\ invocations = <<>>

\* C3: a request whose tags are empty or whose categories do not hold at
\* least 2 distinct elements never reaches the engine.
C3_InvalidNeverReachesEngine ==
    (request.endpoint = "/classify" /\ invocations # <<>>) =>
        /\ request.tags # <<>>
        /\ Cardinality(Range(request.categories)) >= 2

\* C4: the category of a 200 answer is one of the request's categories.
C4_CategoryFromRequest ==
    Answered200 => response.body.category \in Range(request.categories)

\* C4 witness: a 200 answer whose category is not the first category of the
\* request.
C4_Witness ==
    /\ Answered200
    /\ response.body.category # request.categories[1]
    /\ response.body.category \in Range(request.categories)

\* C5: when all_scores is present its entries are in non-increasing score
\* order, and its first entry is the returned category with the returned
\* score.
C5_AllScoresRanked ==
    HasAllScores =>
        /\ Len(Items) >= 1
        /\ \A i \in 1..(Len(Items) - 1) : Items[i][2] >= Items[i + 1][2]
        /\ Items[1][1] = response.body.category
        /\ Items[1][2] = response.body.score

\* C5 witness: an all_scores of two entries with different scores, for a
\* request that repeats a category.
C5_Witness ==
    /\ HasAllScores
    /\ Len(Items) = 2
    /\ Items[1][2] > Items[2][2]
    /\ Len(request.categories) > 2

\* the request is valid as the data model defines it: at least one tag and
\* at least 2 distinct categories
ValidRequest ==
    /\ request.endpoint = "/classify"
    /\ request.tags # <<>>
    /\ Cardinality(Range(request.categories)) >= 2

\* C6 as stated: for a valid request, all_scores has the categories as its
\* keys, each once, and as many entries as categories were supplied.
C6_AsManyEntriesAsCategories ==
    (ValidRequest /\ HasAllScores) =>
        /\ Keys = Range(request.categories)
        /\ Cardinality(Keys) = Len(Items)
        /\ Len(Items) = Len(request.categories)

\* C6 amended: all_scores has the categories as its keys, each once, and as
\* many entries as DISTINCT categories were supplied.
C6_KeysAreDistinctCategories ==
    HasAllScores =>
        /\ Keys = Range(request.categories)
        /\ Cardinality(Keys) = Len(Items)
        /\ Len(Items) = Cardinality(Range(request.categories))

\* C6 witness: a valid request that repeats a category, answered with an
\* all_scores of fewer entries than categories.
C6_Witness ==
    /\ ValidRequest
    /\ HasAllScores
    /\ Len(Items) < Len(request.categories)

\* C7: a 200 answer carries the all_scores mapping exactly when the request
\* set return_scores; otherwise it carries category and score alone.
C7_AllScoresIffRequested ==
    Answered200 =>
        /\ response.body.all_scores # None <=> request.return_scores
        /\ DOMAIN response.body = {"category", "score", "all_scores"}

\* C7 witness: a 200 answer without all_scores to a request that did not
\* set return_scores.
C7_Witness ==
    /\ Answered200
    /\ ~request.return_scores
    /\ response.body.all_scores = None

\* the pipeline call of the request raised
InferenceRaised ==
    /\ request.endpoint = "/classify"
    /\ invocations # <<>>
    /\ invocations[Len(invocations)].outcome.raised

\* C8: when the inference call raises, the request is answered, with 500 and
\* a body that carries the exception's message.
C8_InferenceFailureIs500 ==
    InferenceRaised =>
        /\ response # NoResponse
        /\ response.status_code = 500
        /\ response.body.detail =
              "Interner Fehler bei der Klassifizierung: "
                  \o invocations[Len(invocations)].outcome.msg

\* C8 witness: the pipeline raised for a valid request on a loaded service.
C8_Witness ==
    /\ InferenceRaised
    /\ classifier # None
    /\ request.tags # <<>>
    /\ Len(request.categories) >= 2
    /\ response.status_code = 500

\* C9: a valid /classify request handled with the model loaded calls the
\* pipeline exactly once, whether the call returns or raises, and whether or
\* not all_scores is built.
C9_ExactlyOneInvocation ==
    [][(ClassifyStep /\ classifier # None /\ request.tags # <<>>
            /\ Len(request.categories) >= 2)
        => Len(invocations') = 1]_vars

\* C9 witness: a request that asked for all_scores was answered 200 after
\* one pipeline call.
C9_Witness ==
    /\ HasAllScores
    /\ Len(invocations) = 1
    /\ ~invocations[1].outcome.raised

\* C10: health always answers 200, reports "healthy" exactly when a model
\* handle exists, and changes no state of the service; while the service is
\* still starting, health reports "unhealthy" and /classify answers 503.
C10_Health ==
    [][/\ HealthStep =>
            /\ response'.status_code = 200
            /\ response'.body.status = "healthy" <=> classifier # None
            /\ response'.body.status \in {"healthy", "unhealthy"}
            /\ lifecycle = "STARTING" => response'.body.status = "unhealthy"
            /\ UNCHANGED <<classifier, lifecycle, invocations>>
       /\ (ClassifyStep /\ lifecycle = "STARTING") => response'.status_code = 503
      ]_vars

\* C10 witness: health was asked while the service was starting and said
\* "unhealthy".
C10_Witness ==
    /\ request = HealthRequest
    /\ response # NoResponse
    /\ lifecycle = "STARTING"
    /\ response.body.status = "unhealthy"

\* C11: lifecycle moves only from STARTING to READY (load succeeded) or to
\* FAILED (load failed), so the load is attempted at most once and READY is
\* never left; the handle is set only by the successful load and no handler
\* recreates or changes it; after a failed load the handle stays absent,
\* health says "unhealthy" and /classify is never answered with 200.
C11_Lifecycle ==
    [][/\ lifecycle' # lifecycle =>
            (lifecycle = "STARTING" /\ lifecycle' \in {"READY", "FAILED"})
       /\ classifier' # classifier =>
            (classifier = None /\ lifecycle = "STARTING" /\ lifecycle' = "READY")
       /\ (lifecycle' = "READY") <=> (classifier' # None)
       /\ lifecycle = "FAILED" =>
            /\ classifier' = None
            /\ HealthStep => response'.body.status = "unhealthy"
            /\ ClassifyStep => response'.status_code = 503
      ]_vars

\* C11 witness: after a failed load a well-formed /classify request was
\* answered 503.
C11_Witness ==
    /\ lifecycle = "FAILED"
    /\ Answered
    /\ request.tags # <<>>
    /\ Len(request.categories) >= 2
    /\ response.status_code = 503
    /\ classifier = None

\* C12: over a static, deterministic model, a /classify call with the
\* arguments of an earlier call is answered with the same status, and when
\* that is 200 with the same category and score, whatever calls with other
\* arguments were handled in between.
C12_Idempotent ==
    (Answered /\ reference # None /\ request = reference.request) =>
        /\ response.status_code = reference.response.status_code
        /\ response.status_code = 200 =>
              /\ response.body.category = reference.response.body.category
              /\ response.body.score = reference.response.body.score

\* C12 witness: the reference call was repeated and answered 200 after a
\* call with other arguments had been handled in between.
C12_Witness ==
    /\ Answered200
    /\ reference # None
    /\ request = reference.request
    /\ reference.interleaved

RECURSIVE ExpectedPremise(_)
\* the tags in input order with ", " between neighbours, built from the end
ExpectedPremise(tags) ==
    IF Len(tags) = 0 THEN ""
    ELSE IF Len(tags) = 1 THEN tags[1]
    ELSE ExpectedPremise(SubSeq(tags, 1, Len(tags) - 1)) \o ", " \o tags[Len(tags)]

RECURSIVE TotalLen(_)
TotalLen(tags) ==
    IF tags = <<>> THEN 0 ELSE Len(tags[1]) + TotalLen(Tail(tags))

\* the tags and the multi_label flag of the call in `request`
RequestTags ==
    IF request.endpoint = "/classify" THEN request.tags ELSE <<request.tag>>

RequestMultiLabel ==
    IF request.endpoint = "/classify" THEN request.multi_label ELSE FALSE

\* C13: every pipeline call gets as premise the tags of the request joined
\* with ", " in input order, nothing dropped, reordered or rewritten (the
\* premise is as long as all tags plus the separators; one tag gives the tag
\* alone), and as candidate labels and multi_label the request's categories
\* and flag (False for classify_single_tag).
C13_PremiseIsJoinedTags ==
    \A i \in 1..Len(invocations) :
        /\ invocations[i].text = ExpectedPremise(RequestTags)
        /\ Len(invocations[i].text) = TotalLen(RequestTags) + 2 * (Len(RequestTags) - 1)
        /\ Len(RequestTags) = 1 => invocations[i].text = RequestTags[1]
        /\ invocations[i].candidate_labels = request.categories
        /\ invocations[i].multi_label = RequestMultiLabel

\* C13 witness: a request that repeats a tag reached the pipeline with both
\* occurrences in the premise.
C13_Witness ==
    /\ request.endpoint = "/classify"
    /\ request.tags = <<"dog", "dog">>
    /\ Len(invocations) = 1
    /\ invocations[1].text = "dog, dog"
    /\ request.multi_label
    /\ invocations[1].multi_label

====
